---- MODULE Spec2Model ----
(***************************************************************************)
(* Model of the trading monitor (src/trading/monitor.js) and of the swap   *)
(* helper it calls (src/unnamed/part_000, required as ./swap).             *)
(*                                                                         *)
(* Units.  Prices are integers in cents, USDC amounts in whole dollars,    *)
(* token amounts in whole tokens; the catalogue prices are chosen so that  *)
(* every product and quotient the code computes is exact.  Time is counted *)
(* in units of four hours, so maxAge (4 h) is one unit.                    *)
(*                                                                         *)
(* JavaScript runs the monitor on one thread: a step of the model is the   *)
(* code between two awaits, and the result of the awaited call (feed,      *)
(* price lookup, swap, file write) is drawn with \E.                       *)
(***************************************************************************)
EXTENDS Integers, Sequences, FiniteSets, TLC

VARIABLES
    dryRun,            \* config.dryRun (monitor.js:34)
    positions,         \* this.positions: the Map, as its entries in insertion order
    positionsFile,     \* content of positions.json: the array last written
    tradeLog,          \* content of trades.log: one record per line
    isScanning,        \* this.isScanning
    pc,                \* where scanLoop stands
    tokens,            \* scanMarkets' tokens, the list getTrendingTokens returned
    topOpportunities,  \* the candidates of scanMarkets' for loop still to attempt
    checkIdx,          \* position of checkPositions' Map iterator
    pending,           \* the request awaited (swap, feed), NoPending when none
    now,               \* Date.now(), in units of four hours
    writeFailures,     \* how many file writes of the monitor have thrown
    console            \* the outcome line the last step wrote to the console

vars == <<dryRun, positions, positionsFile, tradeLog, isScanning, pc, tokens,
          topOpportunities, checkIdx, pending, now, writeFailures,
          console>>

-----------------------------------------------------------------------------
(* Bounds of the model *)

\* trades.log holds at most MaxLog lines: past it every swap request fails
MaxLog == 2
\* Date.now() stays within 0..MaxClock
MaxClock == 2
\* at most MaxWriteFailures writes of positions.json or trades.log by the
\* monitor fail in a run
MaxWriteFailures == 1

-----------------------------------------------------------------------------
(* config (monitor.js:13-36): the defaults, but for maxPositions *)

positionSize == 10
minLiquidity == 100000
stopLoss == 10
minVolume24h == 50000
minPriceChange == 5
minMarketCap == 100000
\* MAX_POSITIONS=2 in the environment (the default is 3), so that a tick's
\* three candidates can exceed the capacity
maxPositions == 2
blacklist == { <<"m","e","m","e">>, <<"s","c","a","m">>, <<"i","n","u">>,
               <<"d","o","g","e">> }

\* scanMarkets takes opportunities.slice(0, Math.min(3, ...))
TopN == 3
\* checkPosition: maxAge = 4 * 60 * 60 * 1000 ms, one unit of time
maxAge == 1

-----------------------------------------------------------------------------
(* Strings as sequences of characters *)

\* String.prototype.toLowerCase on the characters the symbols use
LowerChar(c) ==
    CASE c = "D" -> "d" [] c = "O" -> "o" [] c = "G" -> "g" [] c = "E" -> "e"
      [] c = "F" -> "f" [] c = "B" -> "b" [] c = "A" -> "a" [] c = "R" -> "r"
      [] c = "Z" -> "z" [] c = "Q" -> "q" [] c = "U" -> "u" [] c = "X" -> "x"
      [] c = "M" -> "m" [] c = "I" -> "i" [] c = "N" -> "n" [] c = "S" -> "s"
      [] c = "C" -> "c"
      [] OTHER -> c

toLowerCase(s) == [i \in 1..Len(s) |-> LowerChar(s[i])]

\* String.prototype.includes
includes(s, w) ==
    \E i \in 0..(Len(s) - Len(w)) : SubSeq(s, i + 1, i + Len(w)) = w

-----------------------------------------------------------------------------
(* The Map this.positions: entries in insertion order, keyed by address *)

MapHas(m, a) == \E i \in 1..Len(m) : m[i].address = a

MapKeys(m) == {m[i].address : i \in 1..Len(m)}

MapGet(m, a) == m[CHOOSE i \in 1..Len(m) : m[i].address = a]

\* Map.prototype.set: an existing key keeps its place and gets the new value
MapSet(m, a, p) ==
    IF MapHas(m, a)
    THEN [i \in 1..Len(m) |-> IF m[i].address = a THEN p ELSE m[i]]
    ELSE Append(m, p)

\* Map.prototype.delete
MapDelete(m, a) == SelectSeq(m, LAMBDA e : e.address # a)

-----------------------------------------------------------------------------
(* The candidates the feed can return (the result of getTrendingTokens) *)

Token(addr, sym, price, chg, pool) ==
    [address |-> addr, symbol |-> sym, price |-> price, priceChange24h |-> chg,
     volume24h |-> 80000, liquidity |-> 150000, marketCap |-> 200000,
     pairAddress |-> pool]

TokM1  == Token("M1", <<"F","O","O">>, 100, 12, "p1")
\* the same token in a second pool, at another price
TokM1b == Token("M1", <<"F","O","O">>, 200, 12, "p2")
TokM2  == Token("M2", <<"B","A","R">>, 100, 12, "p3")
TokM3  == Token("M3", <<"B","A","Z">>, 100, 12, "p4")
\* an address of the Base chain, which the swap helper cannot resolve
Tok0x  == Token("0xB", <<"Q","U","X">>, 100, 12, "p5")
\* rejected by the filter: blacklisted symbol, falling price
TokDoge == Token("M2", <<"D","o","g","e","X">>, 100, 12, "p6")
TokDown == Token("M3", <<"B","A","Z">>, 100, -12, "p4")

Feeds ==
    { <<>>,
      <<TokM1, TokM1b, TokM2, Tok0x>>,
      <<TokDoge, TokDown>> }

-----------------------------------------------------------------------------
(* isGoodOpportunity (monitor.js:234-254), with its early returns in order *)

Abs(x) == IF x < 0 THEN -x ELSE x

\* a symbol that is not a string (a number in the JSON of the feed)
NonString == <<"number">>

\* token.symbol.toLowerCase() (242) throws a TypeError: the four tests before
\* it let the candidate through and its symbol has no such method
isGoodOpportunityThrows(token) ==
    /\ ~(token.volume24h < minVolume24h)
    /\ ~(Abs(token.priceChange24h) < minPriceChange)
    /\ ~(token.liquidity < minLiquidity)
    /\ ~(token.marketCap < minMarketCap)
    /\ token.symbol = NonString

\* the volume test with <= for <
isGoodOpportunity_strictVolume(token, store) ==
    IF token.volume24h <= minVolume24h THEN FALSE
    ELSE IF Abs(token.priceChange24h) < minPriceChange THEN FALSE
    ELSE IF token.liquidity < minLiquidity THEN FALSE
    ELSE IF token.marketCap < minMarketCap THEN FALSE
    ELSE IF \E word \in blacklist : includes(toLowerCase(token.symbol), word)
         THEN FALSE
    ELSE IF MapHas(store, token.address) THEN FALSE
    ELSE IF token.priceChange24h <= 0 THEN FALSE
    ELSE TRUE

isGoodOpportunity(token, store) ==
    IF token.volume24h < minVolume24h THEN FALSE
    ELSE IF Abs(token.priceChange24h) < minPriceChange THEN FALSE
    ELSE IF token.liquidity < minLiquidity THEN FALSE
    ELSE IF token.marketCap < minMarketCap THEN FALSE
    ELSE IF \E word \in blacklist : includes(toLowerCase(token.symbol), word)
         THEN FALSE
    ELSE IF MapHas(store, token.address) THEN FALSE
    ELSE IF token.priceChange24h <= 0 THEN FALSE
    ELSE TRUE

-----------------------------------------------------------------------------
(* The swap helper (part_000) *)

\* the symbols getMintAddress knows
tokenMints == {"SOL", "USDC", "USDT", "RAY", "SRM"}

\* token.length === 44 && /^[A-Za-z0-9]+$/.test(token): M1, M2, M3 stand for
\* strings of that shape, 0xB for a 42-character address of the Base chain
IsMintShaped(token) == token \in {"M1", "M2", "M3"}

\* getMintAddress throws 'Unknown token symbol'
getMintAddressThrows(token) ==
    ~IsMintShaped(token) /\ token \notin tokenMints

\* what quote.outAmount / 10^decimals can be: the tokens a purchase with USDC
\* yields, the USDC a sale yields
OutAmounts(inputToken) == IF inputToken = "USDC" THEN {12} ELSE {8, 16}

\* the transaction sent whatever the mode
executeSwap_submits(simulate) == "TX"

\* executeSwap's return value; the real suffix of DRY_RUN_TX_ is Date.now()
executeSwap(simulate) == IF simulate THEN "DRY_RUN_TX" ELSE "TX"

\* the result object swap builds (149-159); its timestamp, price impact and
\* execution time are left out
SwapResult(inputToken, outputToken, amount, simulate, out) ==
    [signature |-> executeSwap(simulate), inputToken |-> inputToken,
     outputToken |-> outputToken, inputAmount |-> amount, outputAmount |-> out,
     dryRun |-> simulate]

\* the line JupiterSwap.logTrade appends (204-223)
SwapLogEntry(r) ==
    [type |-> "SWAP",
     input |-> <<r.inputAmount, r.inputToken>>,
     output |-> <<r.outputAmount, r.outputToken>>,
     signature |-> r.signature, dryRun |-> r.dryRun]

\* swap can return a result: both mints resolve (131-132); the quote and the
\* transaction then succeed or fail as the network decides
SwapCanSucceed(inputToken, outputToken) ==
    ~getMintAddressThrows(inputToken) /\ ~getMintAddressThrows(outputToken)

-----------------------------------------------------------------------------
(* enterPosition's bookkeeping (monitor.js:264-311) *)

\* the simulated fill of dry-run mode (269-280)
DryRunResult(token) ==
    [signature |-> "DRY_RUN",
     outputAmount |-> IF token.price > 0
                      THEN (positionSize * 100) \div token.price
                      ELSE positionSize,
     dryRun |-> TRUE]

\* the stop-loss price set above the entry price
NewPosition_stopAbove(token, result, t) ==
    [token |-> token.symbol, address |-> token.address,
     entryPrice |-> token.price, entryTime |-> t,
     amount |-> result.outputAmount, usdcInvested |-> positionSize,
     signature |-> result.signature,
     stopLoss |-> (token.price * (100 + stopLoss)) \div 100]

\* the position object (293-302)
NewPosition(token, result, t) ==
    [token |-> token.symbol, address |-> token.address,
     entryPrice |-> token.price, entryTime |-> t,
     amount |-> result.outputAmount, usdcInvested |-> positionSize,
     signature |-> result.signature,
     stopLoss |-> (token.price * (100 - stopLoss)) \div 100]

\* parseFloat of a field the quote lacks: NaN, held as a value outside the
\* range of the amounts
NaN == -1
\* JSON's null, outside the range of the amounts too
null == -2

\* JSON.stringify of a number, read back by JSON.parse: NaN is written as null
StringifyNumber(x) == IF x = NaN THEN null ELSE x

\* JSON.stringify of { address, ...position }, read back by JSON.parse; strings
\* come back as they were
StringifyPosition(address, p) ==
    [token |-> p.token, address |-> address,
     entryPrice |-> StringifyNumber(p.entryPrice), entryTime |-> p.entryTime,
     amount |-> StringifyNumber(p.amount),
     usdcInvested |-> StringifyNumber(p.usdcInvested),
     signature |-> p.signature, stopLoss |-> StringifyNumber(p.stopLoss)]

\* what savePositions writes (465-473): one record per entry of the Map
savePositions(store) ==
    [i \in 1..Len(store) |-> StringifyPosition(store[i].address, store[i])]

\* loadPositions (478-492): data.forEach(pos => positions.set(pos.address, pos))
\* on the empty Map
RECURSIVE loadInto(_, _)
loadInto(m, data) ==
    IF data = <<>> THEN m
    ELSE loadInto(MapSet(m, Head(data).address, Head(data)), Tail(data))

loadPositions(data) == loadInto(<<>>, data)

-----------------------------------------------------------------------------
(* checkPosition's exit rules (monitor.js:343-375) *)

TimeExitPnl == 20
ProfitPnl == 50

\* pnl = (currentPrice - entryPrice) / entryPrice * 100 compared with k,
\* for entryPrice > 0
PnlBelow(currentPrice, p, k) ==
    (currentPrice - p.entryPrice) * 100 < k * p.entryPrice
PnlAbove(currentPrice, p, k) ==
    (currentPrice - p.entryPrice) * 100 > k * p.entryPrice

\* the stop-loss test with < for <=
StopLossHit_strict(currentPrice, p) == currentPrice < p.stopLoss

StopLossHit(currentPrice, p) == currentPrice <= p.stopLoss

\* the age test with >= for >
TimeExitHit_atMaxAge(currentPrice, p, t) ==
    (t - p.entryTime) >= maxAge /\ PnlBelow(currentPrice, p, TimeExitPnl)

TimeExitHit(currentPrice, p, t) ==
    (t - p.entryTime) > maxAge /\ PnlBelow(currentPrice, p, TimeExitPnl)

\* the profit test with >= for >
ProfitHit_inclusive(currentPrice, p) ==
    (currentPrice - p.entryPrice) * 100 >= ProfitPnl * p.entryPrice

ProfitHit(currentPrice, p) == PnlAbove(currentPrice, p, ProfitPnl)

\* an exit whatever the rules say
shouldExit_always(currentPrice, p, t) == TRUE

shouldExit(currentPrice, p, t) ==
    StopLossHit(currentPrice, p) \/ TimeExitHit(currentPrice, p, t)
        \/ ProfitHit(currentPrice, p)

\* each rule that matches overwrites exitReason, so the last one stands;
\* the reason is kept by its kind, without the numbers formatted into it
exitReason(currentPrice, p, t) ==
    IF ProfitHit(currentPrice, p) THEN "Profit taking"
    ELSE IF TimeExitHit(currentPrice, p, t) THEN "Time exit"
    ELSE IF StopLossHit(currentPrice, p) THEN "Stop loss"
    ELSE ""

\* what getTokenData can return: null, or the price parsed (0 when unparseable)
NoData == "null"

\* parseFloat(x) || 0
parseFloatOrZero(x) == IF x = NaN THEN 0 ELSE x

\* the priceUsd field of the pair found: missing or unparseable (parseFloat
\* gives NaN), or a price in cents
PriceUsd == {NaN, 90, 91, 119, 120, 150, 151}
CurrentPrices == { parseFloatOrZero(priceUsd) : priceUsd \in PriceUsd }

-----------------------------------------------------------------------------
(* exitPosition's bookkeeping (monitor.js:396-421) *)

\* pnl with its operands exchanged
ExitLogEntry_swapped(p, reason, result) ==
    LET finalValue == result.outputAmount
        pnl == p.usdcInvested - finalValue
        pnlPercent == (pnl * 100) \div p.usdcInvested
    IN [type |-> "EXIT", token |-> p.token, reason |-> reason,
        entryPrice |-> p.entryPrice, entryTime |-> p.entryTime,
        invested |-> p.usdcInvested, finalValue |-> finalValue, pnl |-> pnl,
        pnlPercent |-> pnlPercent, signature |-> result.signature]

\* the EXIT record handed to logTrade; exitTime and the timestamp logTrade
\* adds are left out
ExitLogEntry(p, reason, result) ==
    LET finalValue == result.outputAmount
        pnl == finalValue - p.usdcInvested
        pnlPercent == (pnl * 100) \div p.usdcInvested
    IN [type |-> "EXIT", token |-> p.token, reason |-> reason,
        entryPrice |-> p.entryPrice, entryTime |-> p.entryTime,
        invested |-> p.usdcInvested, finalValue |-> finalValue, pnl |-> pnl,
        pnlPercent |-> pnlPercent, signature |-> result.signature]

-----------------------------------------------------------------------------
(* State after construction and loadPositions (monitor.js:12-48, 478-492) *)

NoPending == [side |-> "none"]
NoLine == [msg |-> ""]

\* a position an earlier run left in positions.json
LoadedM1 ==
    [token |-> <<"F","O","O">>, address |-> "M1", entryPrice |-> 100,
     entryTime |-> 0, amount |-> 10, usdcInvested |-> 10,
     signature |-> "DRY_RUN", stopLoss |-> 90]

\* what positions.json can hold at start
InitFiles == { <<>>, <<LoadedM1>> }

Init ==
    /\ dryRun \in BOOLEAN
    /\ positionsFile \in InitFiles
    /\ positions = loadPositions(positionsFile)
    /\ tradeLog = <<>>
    /\ isScanning = TRUE
    /\ pc = "loop"
    /\ tokens = <<>>
    /\ topOpportunities = <<>>
    /\ checkIdx = 1
    /\ pending = NoPending
    /\ now = 0
    /\ writeFailures = 0
    /\ console = [msg |-> "Monitor started"]

-----------------------------------------------------------------------------
(* scanMarkets (monitor.js:102-138), up to the for loop *)

Min(a, b) == IF a < b THEN a ELSE b

\* the addresses trades.log shows as closed: the token sold by the swap
\* whose line precedes an EXIT line
ClosedAddresses(log) ==
    {log[i - 1].input[2] : i \in {k \in 2..Len(log) : log[k].type = "EXIT"}}

\* a filter that remembers the addresses it has closed
Opportunities_remembersClosed(list, store) ==
    SelectSeq(list, LAMBDA token :
        /\ isGoodOpportunity(token, store)
        /\ token.address \notin ClosedAddresses(tradeLog))

\* opportunities = tokens.filter(isGoodOpportunity)
Opportunities(list, store) ==
    SelectSeq(list, LAMBDA token : isGoodOpportunity(token, store))

\* a slice of four
TopOpportunities_four(opportunities) ==
    SubSeq(opportunities, 1, Min(TopN + 1, Len(opportunities)))

\* opportunities.slice(0, Math.min(3, opportunities.length))
TopOpportunities(opportunities) ==
    SubSeq(opportunities, 1, Min(TopN, Len(opportunities)))

\* the error thrown on to the catch of scanLoop
FeedFailed_aborts ==
    /\ tokens' = <<>>
    /\ pc' = "backoff"
    /\ console' = [msg |-> "Error fetching trending tokens"]

\* the catch of getTrendingTokens (225-228): the error is logged and an empty
\* list returned to scanMarkets
FeedFailed ==
    /\ tokens' = <<>>
    /\ pc' = "filter"
    /\ console' = [msg |-> "Error fetching trending tokens"]

\* the while test passes and scanMarkets awaits getTrendingTokens, which
\* returns the feed's candidates, or fails
ScanMarketsOn(feeds) ==
    /\ pc = "loop"
    /\ isScanning
    /\ \/ /\ \E list \in feeds : tokens' = list
          /\ pc' = "filter"
          /\ console' = [msg |-> "Found trending tokens"]
       \/ FeedFailed
    /\ UNCHANGED <<dryRun, positions, positionsFile, tradeLog, isScanning,
                   topOpportunities, checkIdx, pending, now, writeFailures>>

ScanMarkets == ScanMarketsOn(Feeds)

\* lines 110-124: the filter, the early return without opportunities, the
\* slice; tokens goes out of scope.  An error thrown by the filter ends
\* scanMarkets in its catch (135-137).
FilterOpportunities ==
    /\ pc = "filter"
    /\ LET opportunities == Opportunities(tokens, positions)
       IN IF \E i \in 1..Len(tokens) : isGoodOpportunityThrows(tokens[i])
          THEN /\ topOpportunities' = <<>>
               /\ pc' = "check"
               /\ console' = [msg |-> "Error scanning markets"]
          ELSE IF Len(opportunities) = 0
          THEN /\ topOpportunities' = <<>>
               /\ pc' = "check"
               /\ console' = [msg |-> "No opportunities found"]
          ELSE /\ topOpportunities' = TopOpportunities(opportunities)
               /\ pc' = "enter"
               /\ console' = [msg |-> "Found opportunities"]
    /\ tokens' = <<>>
    /\ checkIdx' = 1
    /\ UNCHANGED <<dryRun, positions, positionsFile, tradeLog, isScanning,
                   pending, now, writeFailures>>

-----------------------------------------------------------------------------
(* enterPosition (monitor.js:259-316) *)

\* lines 292-311 once the swap result is there: the position is set in the
\* Map, then savePositions writes the file, or throws into the catch of 313
RecordPosition(token, result, log) ==
    LET position == NewPosition(token, result, now)
        store == MapSet(positions, token.address, position)
    IN /\ positions' = store
       /\ tradeLog' = log
       /\ \E written \in BOOLEAN :
            IF written
            THEN /\ positionsFile' = savePositions(store)
                 /\ UNCHANGED writeFailures
                 /\ console' = [msg |-> "Position entered",
                                address |-> token.address]
            ELSE /\ writeFailures < MaxWriteFailures
                 /\ writeFailures' = writeFailures + 1
                 /\ positionsFile' = positionsFile
                 /\ console' = [msg |-> "Failed to enter position",
                                address |-> token.address,
                                error |-> "writeFileSync"]

\* the capacity test with > for >=
AtCapacity_strict(store) == Len(store) > maxPositions

\* the test of 127
AtCapacity(store) == Len(store) >= maxPositions

\* the position set in the Map before the swap is awaited
EnterFailed_partial(token) ==
    /\ console' = [msg |-> "Failed to enter position",
                   address |-> token.address, error |-> "swap"]
    /\ positions' = MapSet(positions, token.address,
                           NewPosition(token, DryRunResult(token), now))
    /\ UNCHANGED <<positionsFile, tradeLog, writeFailures>>

\* the catch of 313-315 after a throw of swapper.swap: only a line is logged
EnterFailed(token) ==
    /\ console' = [msg |-> "Failed to enter position",
                   address |-> token.address, error |-> "swap"]
    /\ UNCHANGED <<positions, positionsFile, tradeLog, writeFailures>>

\* leaving the for loop of scanMarkets: checkPositions is next
LeaveEnterLoop ==
    /\ topOpportunities' = <<>>
    /\ pc' = "check"
    /\ checkIdx' = 1

\* one turn of the for loop of 126-133: the capacity test, then enterPosition,
\* which in dry-run mode simulates the fill and finishes without waiting,
\* and otherwise awaits swapper.swap
EnterPosition ==
    /\ pc = "enter"
    /\ IF topOpportunities = <<>>
       THEN /\ LeaveEnterLoop
            /\ console' = NoLine
            /\ UNCHANGED <<positions, positionsFile, tradeLog, pending,
                           writeFailures>>
       ELSE IF AtCapacity(positions)
       THEN /\ LeaveEnterLoop
            /\ console' = [msg |-> "Max positions reached"]
            /\ UNCHANGED <<positions, positionsFile, tradeLog, pending,
                           writeFailures>>
       ELSE LET token == Head(topOpportunities)
            IN IF dryRun
               THEN /\ RecordPosition(token, DryRunResult(token), tradeLog)
                    /\ topOpportunities' = Tail(topOpportunities)
                    /\ UNCHANGED <<pc, checkIdx, pending>>
               ELSE /\ pending' = [side |-> "enter", token |-> token]
                    /\ pc' = "enterSwap"
                    /\ console' = [msg |-> "Initiating swap",
                                   address |-> token.address]
                    /\ UNCHANGED <<positions, positionsFile, tradeLog,
                                   topOpportunities, checkIdx, writeFailures>>
    /\ UNCHANGED <<dryRun, isScanning, tokens, now>>

\* swapper.swap('USDC', token.address, usdcAmount, dryRun) returns or throws
EnterSwapReturns ==
    /\ pc = "enterSwap"
    /\ LET token == pending.token
       IN \/ \* the swap throws
             EnterFailed(token)
          \/ \* the swap returns its result, having logged it
             /\ SwapCanSucceed("USDC", token.address)
             /\ Len(tradeLog) + 1 <= MaxLog
             /\ \E out \in OutAmounts("USDC") :
                  LET result == SwapResult("USDC", token.address, positionSize,
                                           dryRun, out)
                  IN RecordPosition(token, result,
                                    Append(tradeLog, SwapLogEntry(result)))
    /\ topOpportunities' = Tail(topOpportunities)
    /\ pending' = NoPending
    /\ pc' = "enter"
    /\ UNCHANGED <<dryRun, isScanning, tokens, checkIdx, now>>

-----------------------------------------------------------------------------
(* checkPositions, checkPosition (monitor.js:321-376) *)

\* an exit requested without a price
SkipPosition_exits(address) ==
    /\ pending' = [side |-> "exit", address |-> address,
                   position |-> MapGet(positions, address),
                   reason |-> "Stop loss"]
    /\ pc' = "exitSwap"
    /\ console' = [msg |-> "No token data", address |-> address]
    /\ UNCHANGED checkIdx

\* a missing price that ends checkPositions
SkipPosition_returns(address) ==
    /\ checkIdx' = Len(positions) + 1
    /\ console' = [msg |-> "No token data", address |-> address]
    /\ UNCHANGED <<pc, pending>>

\* if (!currentData) return (340-341): checkPositions moves to the next entry
SkipPosition(address) ==
    /\ checkIdx' = checkIdx + 1
    /\ console' = [msg |-> "No token data", address |-> address]
    /\ UNCHANGED <<pc, pending>>

\* one turn of the for loop of 326-332: the Map iterator yields the next entry,
\* getTokenData is awaited, the exit rules are applied; with an exit due,
\* exitPosition awaits swapper.swap.  Past the last entry the tick is over and
\* scanLoop sleeps scanInterval.
CheckPosition ==
    /\ pc = "check"
    /\ IF checkIdx > Len(positions)
       THEN /\ pc' = "sleep"
            /\ console' = NoLine
            /\ UNCHANGED <<checkIdx, pending>>
       ELSE LET position == positions[checkIdx]
                address == position.address
            IN \/ \* getTokenData returns null: the position is skipped
                  SkipPosition(address)
               \/ \E currentPrice \in CurrentPrices :
                    IF shouldExit(currentPrice, position, now)
                    THEN /\ pending' =
                              [side |-> "exit", address |-> address,
                               position |-> position,
                               reason |-> exitReason(currentPrice, position, now)]
                         /\ pc' = "exitSwap"
                         /\ console' = [msg |-> "Exiting position",
                                        address |-> address,
                                        price |-> currentPrice]
                         /\ UNCHANGED checkIdx
                    ELSE /\ checkIdx' = checkIdx + 1
                         /\ console' = [msg |-> "Position checked",
                                        address |-> address,
                                        price |-> currentPrice]
                         /\ UNCHANGED <<pc, pending>>
    /\ UNCHANGED <<dryRun, positions, positionsFile, tradeLog, isScanning,
                   tokens, topOpportunities, now, writeFailures>>

-----------------------------------------------------------------------------
(* exitPosition (monitor.js:381-426) *)

\* lines 396-421 once the swap result is there: the position is deleted, then
\* savePositions and logTrade write their files, or throw into the catch of 423
CloseBookkeeping(address, position, reason, result, log) ==
    LET store == MapDelete(positions, address)
    IN /\ positions' = store
       /\ \E written \in BOOLEAN :
            IF written
            THEN /\ positionsFile' = savePositions(store)
                 /\ \E appended \in BOOLEAN :
                      IF appended
                      THEN /\ tradeLog' =
                                Append(log, ExitLogEntry(position, reason,
                                                         result))
                           /\ UNCHANGED writeFailures
                           /\ console' = [msg |-> "Position closed",
                                          address |-> address]
                      ELSE /\ writeFailures < MaxWriteFailures
                           /\ writeFailures' = writeFailures + 1
                           /\ tradeLog' = log
                           /\ console' = [msg |-> "Failed to exit position",
                                          address |-> address,
                                          error |-> "appendFileSync"]
            ELSE /\ writeFailures < MaxWriteFailures
                 /\ writeFailures' = writeFailures + 1
                 /\ positionsFile' = positionsFile
                 /\ tradeLog' = log
                 /\ console' = [msg |-> "Failed to exit position",
                                address |-> address,
                                error |-> "writeFileSync"]

\* the position deleted and the file saved before the swap is awaited
ExitFailed_rewrites(address) ==
    /\ console' = [msg |-> "Failed to exit position",
                   address |-> address, error |-> "swap"]
    /\ positions' = MapDelete(positions, address)
    /\ positionsFile' = savePositions(MapDelete(positions, address))
    /\ UNCHANGED <<tradeLog, writeFailures>>

\* the position deleted before the swap is awaited
ExitFailed_removes(address) ==
    /\ console' = [msg |-> "Failed to exit position",
                   address |-> address, error |-> "swap"]
    /\ positions' = MapDelete(positions, address)
    /\ UNCHANGED <<positionsFile, tradeLog, writeFailures>>

\* the catch of 423-425 after a throw of swapper.swap: only a line is logged
ExitFailed(address) ==
    /\ console' = [msg |-> "Failed to exit position",
                   address |-> address, error |-> "swap"]
    /\ UNCHANGED <<positions, positionsFile, tradeLog, writeFailures>>

\* swapper.swap(address, 'USDC', tokenAmount, dryRun) returns or throws; the
\* iterator of checkPositions then moves on
ExitSwapReturns ==
    /\ pc = "exitSwap"
    /\ LET address == pending.address
           position == pending.position
       IN \/ \* the swap throws
             /\ ExitFailed(address)
             /\ checkIdx' = checkIdx + 1
          \/ \* the swap returns its result, having logged it
             /\ SwapCanSucceed(address, "USDC")
             /\ Len(tradeLog) + 2 <= MaxLog
             /\ \E out \in OutAmounts(address) :
                  LET result == SwapResult(address, "USDC", position.amount,
                                           dryRun, out)
                  IN CloseBookkeeping(address, position, pending.reason, result,
                                      Append(tradeLog, SwapLogEntry(result)))
             /\ UNCHANGED checkIdx
    /\ pending' = NoPending
    /\ pc' = "check"
    /\ UNCHANGED <<dryRun, isScanning, tokens, topOpportunities, now>>

-----------------------------------------------------------------------------
(* scanLoop (monitor.js:81-97), stop (72-76) *)

\* the clock moves on by at most one unit while the loop sleeps
Elapse == \E d \in 0..1 : /\ now + d <= MaxClock
                          /\ now' = now + d

\* a timer that starts the next tick whatever the running one is doing
Sleep_interval ==
    /\ pc \in {"sleep", "enterSwap", "exitSwap"}
    /\ Elapse
    /\ pc' = "loop"
    /\ checkIdx' = 1
    /\ console' = NoLine
    /\ UNCHANGED <<dryRun, positions, positionsFile, tradeLog, isScanning,
                   tokens, topOpportunities, pending, writeFailures>>

\* await this.sleep(this.config.scanInterval), then the while test
Sleep ==
    /\ pc = "sleep"
    /\ Elapse
    /\ pc' = "loop"
    /\ checkIdx' = 1
    /\ console' = NoLine
    /\ UNCHANGED <<dryRun, positions, positionsFile, tradeLog, isScanning,
                   tokens, topOpportunities, pending, writeFailures>>

\* the error thrown on, out of scanLoop
ScanLoopCatch_rethrows ==
    /\ pc \in {"enter", "check"}
    /\ pc' = "crashed"
    /\ topOpportunities' = <<>>
    /\ console' = [msg |-> "Monitor crashed"]
    /\ UNCHANGED <<dryRun, positions, positionsFile, tradeLog, isScanning,
                   tokens, checkIdx, pending, now, writeFailures>>

\* an error escapes scanMarkets or checkPositions (thrown by the console
\* write of 324 or from inside one of their catch handlers): the catch of 92
\* logs it and the loop waits five seconds
ScanLoopCatch ==
    /\ pc \in {"enter", "check"}
    /\ pc' = "backoff"
    /\ topOpportunities' = <<>>
    /\ console' = [msg |-> "Error in scan loop"]
    /\ UNCHANGED <<dryRun, positions, positionsFile, tradeLog, isScanning,
                   tokens, checkIdx, pending, now, writeFailures>>

\* await this.sleep(5000), then the while test
Backoff ==
    /\ pc = "backoff"
    /\ Elapse
    /\ pc' = "loop"
    /\ checkIdx' = 1
    /\ console' = NoLine
    /\ UNCHANGED <<dryRun, positions, positionsFile, tradeLog, isScanning,
                   tokens, topOpportunities, pending, writeFailures>>

\* SIGINT: the handler of 63-66 calls stop, which ends the process at once
Stop ==
    /\ pc # "exited"
    /\ isScanning' = FALSE
    /\ pc' = "exited"
    /\ console' = [msg |-> "Trading monitor stopped"]
    /\ UNCHANGED <<dryRun, positions, positionsFile, tradeLog, tokens,
                   topOpportunities, checkIdx, pending, now, writeFailures>>

-----------------------------------------------------------------------------

Next ==
    \/ ScanMarkets
    \/ FilterOpportunities
    \/ EnterPosition
    \/ EnterSwapReturns
    \/ CheckPosition
    \/ ExitSwapReturns
    \/ Sleep
    \/ ScanLoopCatch
    \/ Backoff
    \/ Stop

Spec == Init /\ [][Next]_vars

\* every step of the loop is taken once it can be: awaited calls return or
\* time out, timers fire; nothing obliges a SIGINT to arrive
TickStep ==
    \/ ScanMarkets
    \/ FilterOpportunities
    \/ EnterPosition
    \/ EnterSwapReturns
    \/ CheckPosition
    \/ ExitSwapReturns
    \/ Sleep
    \/ ScanLoopCatch
    \/ Backoff

FairSpec == Spec /\ WF_vars(TickStep)

-----------------------------------------------------------------------------
(* The loop on a feed of the Base chain, with no shutdown requested *)

\* the feed returns nothing, or one candidate of the Base chain
BaseFeeds == { <<>>, <<Tok0x>> }

NextBase ==
    \/ ScanMarketsOn(BaseFeeds)
    \/ FilterOpportunities
    \/ EnterPosition
    \/ EnterSwapReturns
    \/ CheckPosition
    \/ ExitSwapReturns
    \/ Sleep
    \/ ScanLoopCatch
    \/ Backoff

\* the swap of an exit returns its result and the bookkeeping goes through
CloseSucceeds == ExitSwapReturns /\ console'.msg = "Position closed"

\* every step of the loop is taken once it can be, and a close that can
\* succeed again and again does succeed: the network does not fail for ever
SpecBase ==
    Init /\ [][NextBase]_vars /\ WF_vars(NextBase) /\ SF_vars(CloseSucceeds)

-----------------------------------------------------------------------------
(* The filter on its own: candidates at and around every threshold *)

GridTokens ==
    { [address |-> a, symbol |-> sy, price |-> 100, priceChange24h |-> c,
       volume24h |-> v, liquidity |-> l, marketCap |-> m, pairAddress |-> "p1"] :
        a \in {"M1", "M2"},
        sy \in { <<"F","O","O">>, <<"S","h","i","b","I","n","u">> },
        c \in {-5, 0, 4, 5},
        v \in {49999, 50000},
        l \in {99999, 100000},
        m \in {99999, 100000} }

\* scanMarkets holds a feed of one or two grid candidates, about to filter it
InitFilter ==
    /\ dryRun \in BOOLEAN
    /\ positionsFile \in InitFiles
    /\ positions = positionsFile
    /\ tradeLog = <<>>
    /\ isScanning = TRUE
    /\ pc = "filter"
    /\ tokens \in {<<t>> : t \in GridTokens} \cup {<<TokM2, t>> : t \in GridTokens}
    /\ topOpportunities = <<>>
    /\ checkIdx = 1
    /\ pending = NoPending
    /\ now = 0
    /\ writeFailures = 0
    /\ console = [msg |-> "Found trending tokens"]

SpecFilter == InitFilter /\ [][FilterOpportunities]_vars

-----------------------------------------------------------------------------
(* getTrendingTokens (monitor.js:143-229) on the records of the feed *)

\* a record of the feed.  A missing address is "", a missing symbol <<>>, a
\* numeric field that is missing or does not parse is NaN; base says whether
\* the record has a baseToken object
RawPair(chain, base, addr, sym, price, vol, pool) ==
    [chainId |-> chain, hasBaseToken |-> base, address |-> addr,
     symbol |-> sym, priceUsd |-> price, priceChange |-> 12, volume |-> vol,
     liquidity |-> 150000, fdv |-> 200000, pairAddress |-> pool]

RawM1      == RawPair("base", TRUE, "M1", <<"F","O","O">>, 100, 80000, "p1")
\* the same pool a second time, at another price
RawM1again == RawPair("base", TRUE, "M1", <<"F","O","O">>, 200, 80000, "p1")
RawM2      == RawPair("base", TRUE, "M2", <<"B","A","R">>, 100, 80000, "p3")
RawSolana  == RawPair("solana", TRUE, "M3", <<"B","A","Z">>, 100, 80000, "p4")
RawNoBase  == RawPair("base", FALSE, "", <<>>, 100, 80000, "p5")
RawNoPrice == RawPair("base", TRUE, "M3", <<"B","A","Z">>, NaN, 80000, "p6")
RawNoVolume == RawPair("base", TRUE, "M3", <<"B","A","Z">>, 100, NaN, "p6")
RawNoSymbol == RawPair("base", TRUE, "M3", <<>>, 100, 80000, "p7")
RawNoAddress == RawPair("base", TRUE, "", <<"B","A","Z">>, 100, 80000, "p7")
RawNumberSymbol == RawPair("base", TRUE, "M3", NonString, 100, 80000, "p8")

RawPairs ==
    {RawM1, RawM1again, RawM2, RawSolana, RawNoBase, RawNoPrice, RawNoVolume,
     RawNoSymbol, RawNoAddress, RawNumberSymbol}

\* what an endpoint can answer: up to two records (none when it fails)
Responses ==
    { <<>> } \cup { <<r>> : r \in RawPairs }
             \cup { <<r, q>> : r \in RawPairs, q \in RawPairs }

\* pairs.some(p => p.chainId === 'base')
SomeBase(pairs) == \E i \in 1..Len(pairs) : pairs[i].chainId = "base"

\* the filter of the fallback (179): chain base and volume.h24 above the
\* minimum; a missing volume compares false
FallbackPairs(answer) ==
    SelectSeq(answer, LAMBDA p : /\ p.chainId = "base"
                                 /\ p.volume # NaN
                                 /\ p.volume > minVolume24h)

\* the filter on a Set of pool addresses seen (188-194)
RECURSIVE RemoveDuplicates(_, _)
RemoveDuplicates(pairs, seen) ==
    IF pairs = <<>> THEN <<>>
    ELSE IF Head(pairs).pairAddress \in seen
    THEN RemoveDuplicates(Tail(pairs), seen)
    ELSE <<Head(pairs)>> \o RemoveDuplicates(Tail(pairs),
                                seen \cup {Head(pairs).pairAddress})

\* pairs once both endpoints were tried (146-198): the fallback is asked, and
\* the duplicates removed, only when the trending endpoint gave no record of
\* chain base
CollectPairs(trending, fallback) ==
    IF Len(trending) = 0 \/ ~SomeBase(trending)
    THEN RemoveDuplicates(trending \o FallbackPairs(fallback), {})
    ELSE trending

\* the candidate built from a record (207-217)
NormalizePair(pair) ==
    [address |-> pair.address, symbol |-> pair.symbol,
     price |-> parseFloatOrZero(pair.priceUsd),
     priceChange24h |-> parseFloatOrZero(pair.priceChange),
     volume24h |-> parseFloatOrZero(pair.volume),
     liquidity |-> parseFloatOrZero(pair.liquidity),
     marketCap |-> parseFloatOrZero(pair.fdv),
     pairAddress |-> pair.pairAddress]

\* the last filter (218-223)
IsComplete(token) ==
    /\ token.price > 0
    /\ token.volume24h > 0
    /\ token.symbol # <<>>
    /\ token.address # ""

\* pair.baseToken.address (208) throws a TypeError on a record of chain base
\* without baseToken
NormalizeThrows(pairs) ==
    \E i \in 1..Len(pairs) :
        pairs[i].chainId = "base" /\ ~pairs[i].hasBaseToken

RECURSIVE MapNormalize(_)
MapNormalize(pairs) ==
    IF pairs = <<>> THEN <<>>
    ELSE <<NormalizePair(Head(pairs))>> \o MapNormalize(Tail(pairs))

\* the value getTrendingTokens returns: [] without pairs (199-201), [] from
\* the catch of 225-228 when the map throws
getTrendingTokens(trending, fallback) ==
    LET pairs == CollectPairs(trending, fallback)
        base == SelectSeq(pairs, LAMBDA p : p.chainId = "base")
    IN IF Len(pairs) = 0 THEN <<>>
       ELSE IF NormalizeThrows(pairs) THEN <<>>
       ELSE SelectSeq(MapNormalize(base), IsComplete)

\* scanMarkets awaits getTrendingTokens, whose endpoints have answered
InitFeed ==
    /\ dryRun = TRUE
    /\ positionsFile = <<>>
    /\ positions = <<>>
    /\ tradeLog = <<>>
    /\ isScanning = TRUE
    /\ pc = "fetch"
    /\ tokens = <<>>
    /\ topOpportunities = <<>>
    /\ checkIdx = 1
    /\ pending \in [side : {"feed"}, trending : Responses, fallback : Responses]
    /\ now = 0
    /\ writeFailures = 0
    /\ console = [msg |-> "Scanning markets"]

\* getTrendingTokens returns to scanMarkets (107-108)
GetTrendingTokens ==
    /\ pc = "fetch"
    /\ tokens' = getTrendingTokens(pending.trending, pending.fallback)
    /\ pending' = NoPending
    /\ pc' = "filter"
    /\ console' = [msg |-> "Found trending tokens"]
    /\ UNCHANGED <<dryRun, positions, positionsFile, tradeLog, isScanning,
                   topOpportunities, checkIdx, now, writeFailures>>

SpecFeed == InitFeed /\ [][GetTrendingTokens \/ FilterOpportunities]_vars

-----------------------------------------------------------------------------
(* Persistence on its own: a store is saved, the process starts again and
   loads the file into its empty Map *)

\* the fills a position can be built from: the simulated one, the result of
\* swap with a well-formed quote, the result of swap with a quote that lacks
\* outAmount (part_000:138, parseFloat(undefined))
Fills(token) ==
    {DryRunResult(token)} \cup
    {SwapResult("USDC", token.address, positionSize, FALSE, out) :
        out \in OutAmounts("USDC") \cup {NaN}}

\* the positions enterPosition can have set for a candidate
PositionsOf(token) ==
    {NewPosition(token, result, t) : result \in Fills(token), t \in 0..MaxClock}

\* the stores of up to two positions, on distinct addresses
Stores ==
    { <<>> }
    \cup { <<p>> : p \in PositionsOf(TokM1) \cup PositionsOf(TokM1b)
                          \cup PositionsOf(TokM2) }
    \cup { <<p, q>> : p \in PositionsOf(TokM1) \cup PositionsOf(TokM1b),
                      q \in PositionsOf(TokM2) }

InitPersist ==
    /\ dryRun \in BOOLEAN
    /\ positions \in Stores
    /\ positionsFile = <<>>
    /\ tradeLog = <<>>
    /\ isScanning = TRUE
    /\ pc = "save"
    /\ tokens = <<>>
    /\ topOpportunities = <<>>
    /\ checkIdx = 1
    /\ pending = NoPending
    /\ now = MaxClock
    /\ writeFailures = 0
    /\ console = NoLine

\* savePositions writes the file
SavePositions ==
    /\ pc = "save"
    /\ positionsFile' = savePositions(positions)
    /\ pc' = "restart"
    /\ UNCHANGED <<dryRun, positions, tradeLog, isScanning, tokens,
                   topOpportunities, checkIdx, pending, now, writeFailures,
                   console>>

\* the constructor of the next run: the Map is empty, loadPositions fills it
LoadPositions ==
    /\ pc = "restart"
    /\ positions' = loadPositions(positionsFile)
    /\ pc' = "loop"
    /\ console' = [msg |-> "Loaded existing positions"]
    /\ UNCHANGED <<dryRun, positionsFile, tradeLog, isScanning, tokens,
                   topOpportunities, checkIdx, pending, now, writeFailures>>

SpecPersist == InitPersist /\ [][SavePositions \/ LoadPositions]_vars

-----------------------------------------------------------------------------
(* Claims *)

\* steps of enterPosition and of exitPosition that reach their outcome
EnterStep == pc \in {"enter", "enterSwap"}
ExitStep == pc = "exitSwap"

CountType(log, type) ==
    Cardinality({i \in 1..Len(log) : log[i].type = type})

\* C1: the store never holds more than maxPositions positions, and with the
\* store full at the head of the for loop no enterPosition is made: no swap is
\* requested and the store is left as it is, whatever candidates remain
C1_Capacity ==
    /\ [](Len(positions) <= maxPositions)
    /\ [][(pc = "enter" /\ Len(positions) >= maxPositions)
            => (positions' = positions /\ pending' = NoPending)]_vars

\* the loop was left with a candidate still to attempt and the store full
C1_Witness ==
    /\ console.msg = "Max positions reached"
    /\ Len(positions) = maxPositions

\* C2: an enterPosition never records a position for an address that has an
\* open position at that moment
C2_NoEntryOnHeldAddress ==
    [][(EnterStep /\ console'.msg = "Position entered")
         => ~MapHas(positions, console'.address)]_vars

\* the conjunction of the seven conditions of the filter
SevenConditions(token, store) ==
    /\ token.volume24h >= minVolume24h
    /\ Abs(token.priceChange24h) >= minPriceChange
    /\ token.liquidity >= minLiquidity
    /\ token.marketCap >= minMarketCap
    /\ \A word \in blacklist : ~includes(toLowerCase(token.symbol), word)
    /\ ~MapHas(store, token.address)
    /\ token.priceChange24h > 0

FirstMatchReason(currentPrice, p, t) ==
    IF StopLossHit(currentPrice, p) THEN "Stop loss"
    ELSE IF TimeExitHit(currentPrice, p, t) THEN "Time exit"
    ELSE "Profit taking"

\* C4: the reason handed to exitPosition is that of the first matching rule
C4_FirstMatchingReason ==
    pc = "exitSwap"
        => pending.reason = FirstMatchReason(console.price, pending.position, now)

\* C5: a failed swap of enterPosition leaves the store, positions.json and
\* trades.log as they were, and the for loop goes on
C5_FailedOpenChangesNothing ==
    [][(pc = "enterSwap" /\ console'.msg = "Failed to enter position"
          /\ console'.error = "swap")
         => /\ positions' = positions
            /\ positionsFile' = positionsFile
            /\ tradeLog' = tradeLog
            /\ pc' = "enter"]_vars

\* a swap of enterPosition has failed and the loop is at its next turn
C5_Witness ==
    /\ pc = "enter"
    /\ console.msg = "Failed to enter position"
    /\ console.error = "swap"

\* C6: a failed swap of exitPosition leaves the position in the store with its
\* fields, positions.json and trades.log as they were, and checkPositions
\* goes on
C6_FailedCloseChangesNothing ==
    [][(pc = "exitSwap" /\ console'.msg = "Failed to exit position"
          /\ console'.error = "swap")
         => /\ positions' = positions
            /\ MapHas(positions', pending.address)
            /\ MapGet(positions', pending.address) = pending.position
            /\ positionsFile' = positionsFile
            /\ tradeLog' = tradeLog
            /\ pc' = "check"]_vars

\* a swap of exitPosition has failed and the position is still in the store
C6_Witness ==
    /\ pc = "check"
    /\ console.msg = "Failed to exit position"
    /\ console.error = "swap"
    /\ MapHas(positions, console.address)

\* C7: every enterPosition that succeeds appends exactly one ENTRY record
C7_EntryRecorded ==
    [][(EnterStep /\ console'.msg = "Position entered")
         => CountType(tradeLog', "ENTRY") = CountType(tradeLog, "ENTRY") + 1]_vars

C9_RemovedOnlyBySuccessfulClose ==
    [][\A a \in MapKeys(positions) :
         a \notin MapKeys(positions')
           => /\ pc = "exitSwap"
              /\ pending.address = a
              /\ Len(tradeLog') > Len(tradeLog)
              /\ tradeLog'[Len(tradeLog) + 1].type = "SWAP"
              /\ tradeLog'[Len(tradeLog) + 1].input[2] = a]_vars

\* an address has left the store while another position stays
C9_Witness ==
    /\ console.msg = "Position closed"
    /\ ~MapHas(positions, console.address)
    /\ Len(positions) > 0

\* C10: an error caught by scanLoop is logged on the way to the backoff, the
\* backoff leads to the next tick, and ticks keep starting for as long as the
\* process is not stopped
C10_LoopSurvivesErrors ==
    /\ [][(pc' = "backoff" /\ pc # "backoff")
            => console'.msg = "Error in scan loop"]_vars
    /\ (pc = "backoff") ~> (pc = "filter" \/ pc = "exited")
    /\ []<>(pc = "filter" \/ pc = "exited")

\* scanLoop caught an error and waits its five seconds
C10_Witness ==
    /\ pc = "backoff"
    /\ console.msg = "Error in scan loop"

\* C11: the process stops only once the tick that was running is over: no
\* swap of enterPosition or exitPosition is still awaited, no candidate of
\* the for loop is still to attempt
C11_ShutdownCompletesTick ==
    pc = "exited" => (pending = NoPending /\ topOpportunities = <<>>)

\* C12: at every tick boundary (the loop sleeps, or is at its while test)
\* positions.json holds exactly the positions of the store
C12_SnapshotMirrorsStore ==
    pc \in {"sleep", "loop"} => positionsFile = savePositions(positions)

\* C13: loading the file savePositions wrote into an empty Map gives the
\* store that was saved: the same addresses in the same order, each with the
\* same field values
C13_PersistenceRoundTrip ==
    [][pc = "restart" => positions' = positions]_vars

\* a step of checkPosition that got a price and applied the exit rules to
\* positions[checkIdx]; the price is console'.price
Evaluated ==
    pc = "check" /\ console'.msg \in {"Exiting position", "Position checked"}

\* pnl of a position at a price, times its entry price
PnlTimesEntry(price, p) == (price - p.entryPrice) * 100

\* the price is above entryPrice * (1 - stopLoss / 100)
AboveStopPrice(price, p) == price * 100 > p.entryPrice * (100 - stopLoss)

C17_ClosedAddressReQualifies ==
    /\ [][(pc = "filter" /\ pc' # "exited") =>
            \A i \in 1..Len(tokens) :
              (/\ tokens[i].address \in ClosedAddresses(tradeLog)
               /\ SevenConditions(tokens[i], positions)
               /\ Len(SelectSeq(SubSeq(tokens, 1, i - 1),
                       LAMBDA t : SevenConditions(t, positions))) < TopN)
                => (/\ pc' = "enter"
                    /\ \E j \in 1..Len(topOpportunities') :
                          topOpportunities'[j] = tokens[i])]_vars
    /\ [][(/\ pc = "enter"
            /\ pc' \notin {"exited", "backoff"}
            /\ dryRun
            /\ topOpportunities # <<>>
            /\ Len(positions) < maxPositions
            /\ Head(topOpportunities).address \in ClosedAddresses(tradeLog))
            => MapHas(positions', Head(topOpportunities).address)]_vars

\* an address closed earlier has a position again
C17_Witness ==
    /\ console.msg = "Position entered"
    /\ console.address \in ClosedAddresses(tradeLog)
    /\ MapHas(positions, console.address)

\* C18: when getTokenData returns null for a position, checkPosition returns
\* at once: no exit is requested, the store, positions.json and trades.log
\* stay as they are, and checkPositions moves to the next position
C18_NoPriceSkipsPosition ==
    [][(pc = "check" /\ console'.msg = "No token data")
         => /\ positions' = positions
            /\ positionsFile' = positionsFile
            /\ tradeLog' = tradeLog
            /\ pending' = NoPending
            /\ pc' = "check"
            /\ checkIdx' = checkIdx + 1]_vars

\* a position older than maxAge was skipped for want of a price
C18_Witness ==
    /\ pc = "check"
    /\ console.msg = "No token data"
    /\ MapHas(positions, console.address)
    /\ now - MapGet(positions, console.address).entryTime > maxAge

\* C19: a failure of getTrendingTokens hands scanMarkets an empty list and
\* changes nothing else; scanMarkets then finds no opportunity, attempts no
\* entry, and the tick goes on to checkPositions, from the first position
C19_FeedFailureIsEmptyList ==
    /\ [][(pc = "loop" /\ console'.msg = "Error fetching trending tokens")
            => /\ tokens' = <<>>
               /\ pc' = "filter"
               /\ UNCHANGED <<positions, positionsFile, tradeLog, pending>>]_vars
    /\ [][(/\ pc = "filter"
            /\ console.msg = "Error fetching trending tokens"
            /\ pc' # "exited")
            => /\ topOpportunities' = <<>>
               /\ pc' = "check"
               /\ checkIdx' = 1
               /\ UNCHANGED <<positions, positionsFile, tradeLog, pending>>]_vars

\* the feed failed in a tick that has a position to evaluate
C19_Witness ==
    /\ pc = "filter"
    /\ console.msg = "Error fetching trending tokens"
    /\ tokens = <<>>
    /\ Len(positions) > 0

\* the candidates of a feed that meet the seven conditions, in feed order
Qualifying(list, store) ==
    SelectSeq(list, LAMBDA token : SevenConditions(token, store))

C21_TicksNeverOverlap ==
    /\ [][(pc' = "filter" /\ pc # "filter") => pc = "loop"]_vars
    /\ [][(pc' = "loop" /\ pc # "loop") => pc \in {"sleep", "backoff"}]_vars
    /\ [](pc \in {"loop", "sleep", "backoff"}
            => (/\ pending = NoPending
                /\ topOpportunities = <<>>
                /\ tokens = <<>>))

\* a tick starts its scan after a tick in which a swap was made
C21_Witness ==
    /\ pc = "filter"
    /\ console.msg = "Found trending tokens"
    /\ tradeLog # <<>>
    /\ now > 0

\* C22: the filter never throws: whatever candidates getTrendingTokens hands
\* over, scanMarkets gets a list of opportunities from it and never ends in
\* its catch
C22_FilterIsTotal ==
    [][pc = "filter" => console'.msg # "Error scanning markets"]_vars

\* C23: with dryRun set no transaction is ever sent: every swap the helper
\* has logged was simulated and carries the signature of a simulation, and no
\* position or EXIT record carries the signature of a sent transaction
C23_DryRunNeverSubmits ==
    dryRun =>
        /\ \A i \in 1..Len(tradeLog) :
              /\ tradeLog[i].signature # "TX"
              /\ tradeLog[i].type = "SWAP" => tradeLog[i].dryRun
        /\ \A i \in 1..Len(positions) : positions[i].signature # "TX"

\* in dry-run mode a position was opened and another was closed by a swap
C23_Witness ==
    /\ dryRun
    /\ console.msg = "Position closed"
    /\ Len(positions) > 0
    /\ \E i \in 1..Len(tradeLog) :
          tradeLog[i].type = "SWAP" /\ tradeLog[i].dryRun

\* C24: for as long as an address stays in the store, the stopLoss, the
\* entryPrice, the entryTime, the amount and the usdcInvested of its position
\* keep their values
C24_PositionFieldsFixed ==
    [][\A a \in MapKeys(positions) \cap MapKeys(positions') :
         LET before == MapGet(positions, a)
             after == MapGet(positions', a)
         IN /\ after.stopLoss = before.stopLoss
            /\ after.entryPrice = before.entryPrice
            /\ after.entryTime = before.entryTime
            /\ after.amount = before.amount
            /\ after.usdcInvested = before.usdcInvested]_vars

\* C25: the candidates getTrendingTokens returns have distinct pool
\* addresses, and each is built from a record of chain base that is the first
\* of its pool address among the records the endpoints answered
C25_DeduplicatedBaseCandidates ==
    [][pc = "fetch" =>
         LET records == pending.trending \o pending.fallback
         IN /\ \A i, j \in 1..Len(tokens') :
                 i # j => tokens'[i].pairAddress # tokens'[j].pairAddress
            /\ \A i \in 1..Len(tokens') :
                 \E k \in 1..Len(records) :
                    /\ records[k].chainId = "base"
                    /\ NormalizePair(records[k]) = tokens'[i]
                    /\ \A m \in 1..(k - 1) :
                         records[m].pairAddress # records[k].pairAddress]_vars

\* the candidates of the records that have a baseToken, a price, a volume, a
\* symbol and an address, among the records of chain base collected
CompleteCandidates(trending, fallback) ==
    SelectSeq(MapNormalize(SelectSeq(CollectPairs(trending, fallback),
                  LAMBDA p : p.chainId = "base" /\ p.hasBaseToken)),
              IsComplete)

\* C26: a record without price, volume, symbol, address or baseToken is left
\* out and every other record of the batch is returned as a candidate
C26_IncompleteRecordsDropped ==
    [][pc = "fetch" =>
         tokens' = CompleteCandidates(pending.trending, pending.fallback)]_vars

\* the entries of the Map the iterator of checkPositions has yet to yield
Remaining(store, idx) == SubSeq(store, idx, Len(store))

\* C27: in a tick that runs to its sleep, checkPositions starts at the first
\* entry of the store once scanMarkets is over, with or without
\* opportunities; each of its turns evaluates the entry the iterator is at
\* and, whether the price was missing, no rule matched, the exit failed or
\* the position was closed, leaves the entries still to come as they were
\* and moves to the next of them; the tick goes to sleep only past the last
C27_EveryPositionEvaluated ==
    /\ [][(pc \in {"filter", "enter"} /\ pc' = "check") => checkIdx' = 1]_vars
    /\ [][(/\ pc = "check"
            /\ pc' \notin {"exited", "backoff"}
            /\ checkIdx <= Len(positions))
            => \/ /\ pc' = "check"
                  /\ console'.address = positions[checkIdx].address
                  /\ positions' = positions
                  /\ checkIdx' = checkIdx + 1
               \/ /\ pc' = "exitSwap"
                  /\ pending'.address = positions[checkIdx].address
                  /\ positions' = positions
                  /\ checkIdx' = checkIdx]_vars
    /\ [][(pc = "exitSwap" /\ pc' # "exited")
            => /\ pc' = "check"
               /\ SubSeq(positions', 1, checkIdx - 1)
                     = SubSeq(positions, 1, checkIdx - 1)
               /\ Remaining(positions', checkIdx')
                     = Remaining(positions, checkIdx + 1)]_vars
    /\ [][(pc' = "sleep" /\ pc # "sleep")
            => (pc = "check" /\ checkIdx > Len(positions))]_vars

\* the exit of the first of two positions failed and the second is next
C27_Witness ==
    /\ pc = "check"
    /\ Len(positions) = 2
    /\ checkIdx = 2
    /\ console.msg = "Failed to exit position"
    /\ console.address = positions[1].address

\* C28: every position of the store has an entryPrice above 0, positionSize
\* as its usdcInvested and entryPrice * (1 - stopLoss / 100) as its stopLoss;
\* the position enterPosition sets is stored under the address of its
\* candidate, carries that address and has the price of the candidate as its
\* entryPrice
C28_PositionFields ==
    /\ [](\A i \in 1..Len(positions) :
            /\ positions[i].entryPrice > 0
            /\ positions[i].usdcInvested = positionSize
            /\ positions[i].stopLoss * 100
                  = positions[i].entryPrice * (100 - stopLoss))
    /\ [][(EnterStep /\ positions' # positions)
            => LET token == Head(topOpportunities)
               IN /\ MapHas(positions', token.address)
                  /\ MapGet(positions', token.address).address = token.address
                  /\ MapGet(positions', token.address).entryPrice = token.price
                  /\ MapKeys(positions')
                        = MapKeys(positions) \cup {token.address}]_vars

\* a position was entered at 1.00 in this tick, with its stop loss at 0.90
C28_Witness ==
    /\ console.msg = "Position entered"
    /\ MapHas(positions, console.address)
    /\ MapGet(positions, console.address).entryPrice = 100
    /\ MapGet(positions, console.address).stopLoss = 90
    /\ MapGet(positions, console.address).entryTime = now

\* C29: when the price is above the stop-loss price, pnl is at most 50 and
\* the position is not both older than maxAge and below pnl 20, checkPosition
\* requests no exit: no swap is awaited, the position stays in the store, and
\* the store, positions.json and trades.log are as before
C29_NoRuleNoExit ==
    [][Evaluated =>
         LET p == positions[checkIdx]
             price == console'.price
             pnlE == PnlTimesEntry(price, p)
         IN (/\ price > p.stopLoss
             /\ ~(now - p.entryTime > maxAge /\ pnlE < TimeExitPnl * p.entryPrice)
             /\ ~(pnlE > ProfitPnl * p.entryPrice))
              => (/\ console'.msg = "Position checked"
                  /\ pending' = NoPending
                  /\ pc' = "check"
                  /\ MapHas(positions', p.address)
                  /\ UNCHANGED <<positions, positionsFile, tradeLog>>)]_vars

\* a position older than maxAge was evaluated at pnl 20 and stays
C29_Witness ==
    /\ pc = "check"
    /\ console.msg = "Position checked"
    /\ MapHas(positions, console.address)
    /\ now - MapGet(positions, console.address).entryTime > maxAge
    /\ PnlTimesEntry(console.price, MapGet(positions, console.address))
          = TimeExitPnl * MapGet(positions, console.address).entryPrice

\* C30: within a tick no execution is asked twice for the same address: an
\* entry is not attempted for the address the attempt just before it in the
\* tick was for, whether that one succeeded or failed, and once the swap of
\* an exit has returned or thrown checkPositions goes on with another
\* address
C30_NoRetryWithinTick ==
    /\ [][(/\ pc = "enter"
            /\ topOpportunities # <<>>
            /\ \/ pending'.side = "enter"
               \/ console'.msg \in {"Position entered",
                                     "Failed to enter position"})
            => ~(/\ console.msg \in {"Position entered",
                                      "Failed to enter position"}
                 /\ console.address = Head(topOpportunities).address)]_vars
    /\ [][(pc = "exitSwap" /\ pc' = "check")
            => \/ checkIdx' > Len(positions')
               \/ positions'[checkIdx'].address # pending.address]_vars

\* C31: trades.log only grows, each step leaving the lines it held as they
\* were, and every line it holds is an ENTRY or an EXIT record
C31_LogAppendOnlyEntryExit ==
    /\ [][/\ Len(tradeLog') >= Len(tradeLog)
          /\ SubSeq(tradeLog', 1, Len(tradeLog)) = tradeLog]_vars
    /\ [](\A i \in 1..Len(tradeLog) : tradeLog[i].type \in {"ENTRY", "EXIT"})

\* checkPosition has requested the exit of the position of an address
ExitRequested(a) == pc = "exitSwap" /\ pending.address = a

\* exitPosition has run to its end for an address: the position is removed
\* and the EXIT record appended
Closed(a) ==
    /\ console.msg = "Position closed"
    /\ console.address = a
    /\ ~MapHas(positions, a)
    /\ tradeLog # <<>>
    /\ tradeLog[Len(tradeLog)].type = "EXIT"

C33_NoExitOnMissingPrice ==
    console.msg = "Exiting position"
        => console.price # parseFloatOrZero(NaN)

\* C34: a call of enterPosition or exitPosition that ends in its failure
\* branch leaves the store as it was before the call, whether the execution
\* failed or the snapshot write or the log append after it
C34_FailureKeepsStore ==
    [][console'.msg \in {"Failed to enter position", "Failed to exit position"}
          => positions' = positions]_vars

\* the step in which the execution of an open succeeded (the fill simulated
\* in dry-run mode, the swap in live mode), whatever the write after it did
OpenExecuted ==
    /\ EnterStep
    /\ \/ console'.msg = "Position entered"
       \/ /\ console'.msg = "Failed to enter position"
          /\ console'.error # "swap"

\* the step in which the execution of a close succeeded
CloseExecuted ==
    /\ ExitStep
    /\ \/ console'.msg = "Position closed"
       \/ /\ console'.msg = "Failed to exit position"
          /\ console'.error # "swap"

\* C35: the number of positions of the store is the number of successful
\* opens less the number of successful closes: each successful open adds
\* exactly one position, each successful close takes exactly one away, and
\* no other step changes the number
C35_StoreCountsExecutions ==
    [][/\ OpenExecuted => Len(positions') = Len(positions) + 1
       /\ CloseExecuted => Len(positions') = Len(positions) - 1
       /\ ~(OpenExecuted \/ CloseExecuted)
             => Len(positions') = Len(positions)]_vars

====
